---- MODULE Spec2Model ----
(***************************************************************************)
(* QuickScalpMACD (src/src/strategies/crossover.py): the per-bar handler   *)
(* next(), the position sizer _calc_size() and the strategy's internal     *)
(* state in_trade / entry_price / bars_in_trade.                           *)
(*                                                                         *)
(* Numbers.  Prices, equity and indicator values are integers.  The        *)
(* fractional parameters (tp_pct, sl_pct, risk_per_trade, ema_tolerance)   *)
(* are held in thousandths: tp_pct = 1 stands for 0.001.  A comparison     *)
(* such as  price >= entry_price * (1 + tp_pct)  is evaluated exactly,     *)
(* after multiplying both sides by 1000.                                   *)
(*                                                                         *)
(* The indicators (bt.ind.MACD, CrossOver, EMA, RSI) are library objects;  *)
(* the values next() reads from them on a bar are inputs of the action.    *)
(* next() reads each with float(...): an indicator that has not had its    *)
(* minimum period of bars yet reads as float('nan'), and every comparison  *)
(* with a nan is False.  The model lets next() run on such bars too.       *)
(***************************************************************************)
EXTENDS Integers, Sequences, FiniteSets

\* Largest max_bars_in_trade the parameter sets offer.
MaxBars == 2

\* Python's None and a set value, for self.entry_price and for the values
\* that exist only on some bars.
None == << >>
Some(x) == << x >>

\* float('nan'), the value float(self.<indicator>[0]) has while the indicator
\* is not ready.
NaN == -1000000

\* The float comparisons < and > of next(): False when a side is nan.
Lt(a, b) == a # NaN /\ b # NaN /\ a < b
Gt(a, b) == a # NaN /\ b # NaN /\ a > b

\* ---------------------------------------------------------------- inputs
\* The indicators __init__ builds (lines 44-56).
Indicators == {"macd", "cross", "ema", "rsi"}
\* Close prices offered per bar; next() takes any float the feed delivers
\* (line 85), a zero among them.
PriceChoices == {0, 99, 100, 101}
\* self.ema[0]
EmaChoices == {100}
\* self.macd.macd[0]
MacdChoices == {-1, 1}
\* self.cross: CrossOver yields 1.0 (up), -1.0 (down) or 0.0
CrossChoices == {-1, 0, 1}
\* self.rsi[0]
RsiChoices == {25, 28, 45}
\* self.broker.getvalue()
EquityChoices == {50, 250, 10000}

\* params (crossover.py:23-38), the fractions in thousandths.  The defaults
\* are rsi_oversold 40, risk_per_trade 1.0, tp_pct 0.001, sl_pct 0.001,
\* ema_tolerance 0.005, max_bars_in_trade 50.  The small risk fraction goes
\* with the wide stop, which makes the risk-based size the smaller of the two
\* sizes of _calc_size.
params ==
    { prm \in [ rsi_oversold      : {40},
                risk_per_trade    : {1000, 1},
                tp_pct            : {1, -20},
                sl_pct            : {0, 1, 10},
                max_bars_in_trade : 0 .. MaxBars,
                ema_tolerance     : {5} ] :
        prm.risk_per_trade = 1 <=> prm.sl_pct = 10 }

VARIABLES
    p,              \* self.p, fixed at construction
    in_trade,       \* self.in_trade
    entry_price,    \* self.entry_price: None or Some(price)
    bars_in_trade,  \* self.bars_in_trade
    data,           \* the current values ([0]) next() read on the last bar
    equity,         \* what broker.getvalue() returned on the last bar, if asked
    size,           \* what _calc_size returned on the last bar, if called
    calls,          \* the order calls (buy / close) made on the last bar
    exit_reason,    \* exit_reason of the last bar (None when not set)
    ready,          \* the indicators that had their minimum period on the last bar
    was_in_trade,   \* self.in_trade when the last bar started
    bars_since_entry, \* bars processed since the bar of the last buy()
    entry_close,    \* the close of the bar of the last buy(), None before it
    open_orders     \* buy() calls so far minus close() calls so far

vars == << p, in_trade, entry_price, bars_in_trade, data, equity, size,
           calls, exit_reason, ready, was_in_trade, bars_since_entry,
           entry_close, open_orders >>

\* ---------------------------------------------------------------- helpers
Min(a, b) == IF a <= b THEN a ELSE b
Max(a, b) == IF a >= b THEN a ELSE b

\* ------------------------------------------------------------- _calc_size
\* raw_risk_size = risk_cap / sl_dist as the fraction num / den, den > 0:
\* (equity * risk_per_trade) / (price * sl_pct), the two thousandths cancel.
raw_risk_size(price, eq, prm) ==
    [ num |-> eq * prm.risk_per_trade, den |-> price * prm.sl_pct ]

\* max_affordable = math.floor(equity / price)
max_affordable(price, eq) == eq \div price

\* math.floor(min(raw_risk_size, max_affordable))
floor_min(raw, cap) ==
    IF raw.num <= cap * raw.den THEN raw.num \div raw.den ELSE cap

\* _calc_size without the affordability cap of lines 78-81.
_calc_size_uncapped(price, eq, prm) ==
    IF price * prm.sl_pct <= 0
    THEN 0
    ELSE LET raw == raw_risk_size(price, eq, prm)
         IN  Max(1, raw.num \div raw.den)

_calc_size(price, eq, prm) ==
    IF price * prm.sl_pct <= 0
    THEN 0
    ELSE Max(1, floor_min(raw_risk_size(price, eq, prm), max_affordable(price, eq)))

\* ------------------------------------------------------------------- next
\* The counter left as it is when flat, not set back to 0.
track_bars_no_reset(s) ==
    IF s.in_trade THEN s.bars_in_trade + 1 ELSE s.bars_in_trade

\* lines 97-101: track bars in trade
track_bars(s) ==
    IF s.in_trade THEN s.bars_in_trade + 1 ELSE 0

\* The entry test without the test that MACD is below zero.
buy_condition_any_macd(d, prm) ==
    /\ Gt(d.cross, 0)
    /\ Lt(d.rsi, prm.rsi_oversold) /\ Gt(d.rsi, d.prev_rsi)
    /\ d.ema # NaN /\ d.close * 1000 >= d.ema * (1000 - prm.ema_tolerance)

\* The trend test written as `not (price < ema_floor)`: True on a nan.
buy_condition_not_below(d, prm) ==
    /\ Gt(d.cross, 0)
    /\ Lt(d.macd, 0)
    /\ Lt(d.rsi, prm.rsi_oversold) /\ Gt(d.rsi, d.prev_rsi)
    /\ ~(d.ema # NaN /\ d.close * 1000 < d.ema * (1000 - prm.ema_tolerance))

\* lines 105-119
buy_condition(d, prm) ==
    LET macd_cross_up == Gt(d.cross, 0)
        macd_below_zero == Lt(d.macd, 0)
        rsi_oversold_and_rising ==
            Lt(d.rsi, prm.rsi_oversold) /\ Gt(d.rsi, d.prev_rsi)
        \* price >= ema_val * (1 - ema_tolerance), nan when ema_val is
        ema_trend_ok ==
            d.ema # NaN /\ d.close * 1000 >= d.ema * (1000 - prm.ema_tolerance)
    IN  macd_cross_up /\ macd_below_zero /\ rsi_oversold_and_rising /\ ema_trend_ok

\* The entry branch with entry_price recorded only while it is None.
enter_keep_first(s, d, eq, prm) ==
    LET sz == _calc_size(d.close, eq, prm)
    IN  IF sz <= 0
        THEN [s EXCEPT !.equity = Some(eq), !.size = Some(sz)]
        ELSE [s EXCEPT !.equity = Some(eq), !.size = Some(sz),
                       !.entry_price = IF @ = None THEN Some(d.close) ELSE @,
                       !.in_trade = TRUE,
                       !.calls = Append(@, [op |-> "buy", size |-> sz])]

\* The entry branch without the `if size <= 0: return` of lines 123-124.
enter_unguarded(s, d, eq, prm) ==
    LET sz == _calc_size(d.close, eq, prm)
    IN  [s EXCEPT !.equity = Some(eq), !.size = Some(sz),
                  !.entry_price = Some(d.close),
                  !.in_trade = TRUE,
                  !.calls = Append(@, [op |-> "buy", size |-> sz])]

\* lines 121-128: the entry branch once buy_condition holds, with the equity
\* the broker reports
enter(s, d, eq, prm) ==
    LET sz == _calc_size(d.close, eq, prm)
    IN  IF sz <= 0
        THEN [s EXCEPT !.equity = Some(eq), !.size = Some(sz)]
        ELSE [s EXCEPT !.equity = Some(eq), !.size = Some(sz),
                       !.entry_price = Some(d.close),
                       !.in_trade = TRUE,
                       !.calls = Append(@, [op |-> "buy", size |-> sz])]

\* The exit rules with the stop-loss tested before the take-profit.
exit_rule_sl_first(s, d, prm) ==
    LET entry == s.entry_price[1]
        tp_hit == d.close * 1000 >= entry * (1000 + prm.tp_pct)
        sl_hit == d.close * 1000 <= entry * (1000 - prm.sl_pct)
    IN  IF sl_hit THEN Some("SL hit")
        ELSE IF tp_hit THEN Some("TP hit")
        ELSE IF Lt(d.cross, 0) THEN Some("MACD cross down")
        ELSE IF s.bars_in_trade >= prm.max_bars_in_trade
             THEN Some("Max bars in trade reached")
        ELSE None

\* The exit rules with the time-stop one bar late (> for >=).
exit_rule_late(s, d, prm) ==
    LET entry == s.entry_price[1]
        tp_hit == d.close * 1000 >= entry * (1000 + prm.tp_pct)
        sl_hit == d.close * 1000 <= entry * (1000 - prm.sl_pct)
    IN  IF tp_hit THEN Some("TP hit")
        ELSE IF sl_hit THEN Some("SL hit")
        ELSE IF Lt(d.cross, 0) THEN Some("MACD cross down")
        ELSE IF s.bars_in_trade > prm.max_bars_in_trade
             THEN Some("Max bars in trade reached")
        ELSE None

\* The exit rules without the time-stop of lines 149-150.
exit_rule_no_time_stop(s, d, prm) ==
    LET entry == s.entry_price[1]
        tp_hit == d.close * 1000 >= entry * (1000 + prm.tp_pct)
        sl_hit == d.close * 1000 <= entry * (1000 - prm.sl_pct)
    IN  IF tp_hit THEN Some("TP hit")
        ELSE IF sl_hit THEN Some("SL hit")
        ELSE IF Lt(d.cross, 0) THEN Some("MACD cross down")
        ELSE None

\* lines 138-150: the reason of the first rule that matches, None if none does
exit_rule(s, d, prm) ==
    LET entry == s.entry_price[1]
        \* price >= entry_price * (1 + tp_pct)
        tp_hit == d.close * 1000 >= entry * (1000 + prm.tp_pct)
        \* price <= entry_price * (1 - sl_pct)
        sl_hit == d.close * 1000 <= entry * (1000 - prm.sl_pct)
    IN  IF tp_hit THEN Some("TP hit")
        ELSE IF sl_hit THEN Some("SL hit")
        ELSE IF Lt(d.cross, 0) THEN Some("MACD cross down")
        ELSE IF s.bars_in_trade >= prm.max_bars_in_trade
             THEN Some("Max bars in trade reached")
        ELSE None

\* The exit branch without the `self.in_trade = False` of line 154.
exit_stays_in_trade(s, d, prm) ==
    LET r == exit_rule(s, d, prm)
    IN  IF r # None
        THEN [s EXCEPT !.exit_reason = r,
                       !.calls = Append(@, [op |-> "close"])]
        ELSE s

\* lines 137-154: the exit branch
exit(s, d, prm) ==
    LET r == exit_rule(s, d, prm)
    IN  IF r # None
        THEN [s EXCEPT !.exit_reason = r,
                       !.calls = Append(@, [op |-> "close"]),
                       !.in_trade = FALSE]
        ELSE s

\* Whether the bar reaches _calc_size, and so asks the broker for the equity.
needs_equity(s, d, prm) == ~s.in_trade /\ buy_condition(d, prm)

\* The exit test as a second `if self.in_trade:` after the entry, not as the
\* `else:` of line 137.
branch_both(s, d, eq, prm) ==
    LET s1 == IF ~s.in_trade /\ buy_condition(d, prm)
              THEN enter(s, d, eq, prm) ELSE s
    IN  IF s1.in_trade THEN exit(s1, d, prm) ELSE s1

\* lines 103-154: entry when flat, else exit.

branch(s, d, eq, prm) ==
    IF ~s.in_trade
    THEN IF buy_condition(d, prm) THEN enter(s, d, eq, prm) ELSE s
    ELSE exit(s, d, prm)

\* The strategy object as next() finds it at the start of a bar.
self ==
    [ in_trade |-> in_trade, entry_price |-> entry_price,
      bars_in_trade |-> bars_in_trade,
      equity |-> None, size |-> None, calls |-> << >>, exit_reason |-> None ]

\* next() on one bar: the values it reads (lines 85-93; self.rsi[-1] is the
\* RSI of the bar before, prev_macd and prev_signal only reach the log),
\* then lines 97-154.
next(rdy, close, ema, macd, cross, rsi, eq) ==
    LET d == [ close |-> close, ema |-> ema, macd |-> macd, cross |-> cross,
               rsi |-> rsi, prev_rsi |-> data.rsi ]
        s0 == [self EXCEPT !.bars_in_trade = track_bars(self)]
    IN  \E s1 \in { branch(s0, d, eq, p) } :
        /\ data' = [ close |-> close, ema |-> ema, macd |-> macd,
                     cross |-> cross, rsi |-> rsi ]
        /\ ready' = rdy
        /\ in_trade' = s1.in_trade
        /\ entry_price' = s1.entry_price
        /\ bars_in_trade' = s1.bars_in_trade
        /\ equity' = s1.equity
        /\ size' = s1.size
        /\ calls' = s1.calls
        /\ exit_reason' = s1.exit_reason
        /\ was_in_trade' = in_trade
        /\ bars_since_entry' =
              IF \E i \in 1 .. Len(s1.calls) : s1.calls[i].op = "buy" THEN 0
              ELSE IF in_trade THEN bars_since_entry + 1
              ELSE 0
        /\ entry_close' =
              IF \E i \in 1 .. Len(s1.calls) : s1.calls[i].op = "buy"
              THEN Some(close) ELSE entry_close
        /\ open_orders' =
              open_orders
              + Cardinality({ i \in 1 .. Len(s1.calls) : s1.calls[i].op = "buy" })
              - Cardinality({ i \in 1 .. Len(s1.calls) : s1.calls[i].op = "close" })
        /\ UNCHANGED p

\* lines 40-61, with the parameters of the run: no bar seen, no indicator
\* ready.
Init ==
    /\ p \in params
    /\ in_trade = FALSE
    /\ entry_price = None
    /\ bars_in_trade = 0
    /\ data = [ close |-> 100, ema |-> NaN, macd |-> NaN, cross |-> NaN,
                rsi |-> NaN ]
    /\ ready = {}
    /\ equity = None
    /\ size = None
    /\ calls = << >>
    /\ exit_reason = None
    /\ was_in_trade = FALSE
    /\ bars_since_entry = 0
    /\ entry_close = None
    /\ open_orders = 0

\* The values an indicator can read as on a bar: nan until it is ready.
reading(rdy, name, choices) == IF name \in rdy THEN choices ELSE {NaN}

\* The sets of ready indicators a bar can follow `ready` with: an indicator
\* stays ready, a bar makes at most one more ready (the minimum periods that
\* lines 24-29 give the four differ), and the CrossOver of the MACD lines
\* (line 50) is not ready before the MACD is.
ready_next ==
    { r \in { ready } \cup { ready \cup {i} : i \in Indicators } :
        "cross" \in r => "macd" \in r }

NextBar ==
    \E rdy \in ready_next, close \in PriceChoices :
    \E ema \in reading(rdy, "ema", EmaChoices),
       macd \in reading(rdy, "macd", MacdChoices),
       cross \in reading(rdy, "cross", CrossChoices),
       rsi \in reading(rdy, "rsi", RsiChoices) :
        LET d == [ close |-> close, ema |-> ema, macd |-> macd, cross |-> cross,
                   rsi |-> rsi, prev_rsi |-> data.rsi ]
        IN  IF needs_equity(self, d, p)
            THEN \E eq \in EquityChoices :
                    next(rdy, close, ema, macd, cross, rsi, eq)
            ELSE next(rdy, close, ema, macd, cross, rsi, 0)

Next == NextBar

Spec == Init /\ [][Next]_vars

\* ================================================================ claims
\* What the last bar produced, read off the order calls it made.
Entered == \E i \in 1 .. Len(calls) : calls[i].op = "buy"
Exited == \E i \in 1 .. Len(calls) : calls[i].op = "close"
Held == calls = << >>

\* The exit thresholds of the last bar, from the entry price in force.
TakeProfitHit == data.close * 1000 >= entry_price[1] * (1000 + p.tp_pct)
StopLossHit == data.close * 1000 <= entry_price[1] * (1000 - p.sl_pct)
CrossDown == Lt(data.cross, 0)
TimeStopHit == bars_in_trade >= p.max_bars_in_trade

\* C1: the position is LONG if and only if entry_price is set, in every
\* reachable state.
C1_LongIffEntryPriceSet == in_trade <=> entry_price # None

\* C2: on every bar processed while LONG the exit reason is that of the first
\* matching rule in the order take-profit, stop-loss, MACD cross-down,
\* time-stop, and no exit happens when no rule matches; a close that meets
\* both the take-profit and the stop-loss threshold exits as take-profit.
C2_ExitPriority ==
    was_in_trade =>
        /\ TakeProfitHit => exit_reason = Some("TP hit")
        /\ ~TakeProfitHit /\ StopLossHit => exit_reason = Some("SL hit")
        /\ ~TakeProfitHit /\ ~StopLossHit /\ CrossDown
              => exit_reason = Some("MACD cross down")
        /\ ~TakeProfitHit /\ ~StopLossHit /\ ~CrossDown /\ TimeStopHit
              => exit_reason = Some("Max bars in trade reached")
        /\ ~TakeProfitHit /\ ~StopLossHit /\ ~CrossDown /\ ~TimeStopHit
              => exit_reason = None /\ Held
        /\ exit_reason # None <=> Exited

C2_Witness ==
    /\ was_in_trade
    /\ TakeProfitHit /\ StopLossHit
    /\ exit_reason = Some("TP hit")
    /\ Exited

\* C3: ENTER_LONG is emitted on a bar iff the strategy was FLAT when the bar
\* started, the four entry conditions hold on the bar (the RSI rising over
\* the RSI of the bar before) and the sizer returned a size > 0; the bar then
\* leaves the state LONG with entry_price the bar's close and bars_held 0,
\* and the order carries the sizer's size.
C3_EntryIff ==
    [][ /\ Entered' <=>
              /\ ~in_trade
              /\ Gt(data'.cross, 0)
              /\ Lt(data'.macd, 0)
              /\ Lt(data'.rsi, p.rsi_oversold) /\ Gt(data'.rsi, data.rsi)
              /\ data'.ema # NaN
              /\ data'.close * 1000 >= data'.ema * (1000 - p.ema_tolerance)
              /\ size' # None /\ size'[1] > 0
        /\ Entered' =>
              /\ in_trade'
              /\ entry_price' = Some(data'.close)
              /\ bars_in_trade' = 0
              /\ calls' = << [op |-> "buy", size |-> size'[1]] >>
      ]_vars

C3_Witness ==
    /\ Entered /\ in_trade /\ ~was_in_trade
    /\ entry_price = Some(data.close)

\* C4: whenever the stop distance is positive and the affordability-capped
\* size min(risk-based size, floor(equity/price)) is <= 0, the sizer returns
\* 0 and the bar stays FLAT without an order.
C4_ZeroWhenUnaffordable ==
    ( /\ size # None
      /\ data.close * p.sl_pct > 0
      /\ \/ equity[1] \div data.close <= 0
         \/ equity[1] * p.risk_per_trade <= 0 )
    => size = Some(0) /\ ~in_trade /\ Held

\* C5: with a positive stop distance and floor(equity/price) >= 1 the sizer
\* returns max(1, floor(min(equity*risk/(price*stop), floor(equity/price))));
\* equity 10000, risk 1.0, price 100, stop 0.001 gives 100.
C5_SizeFormula ==
    ( /\ size # None
      /\ data.close * p.sl_pct > 0
      /\ equity[1] \div data.close >= 1 )
    => /\ size[1] = Max(1, Min((equity[1] * p.risk_per_trade)
                                  \div (data.close * p.sl_pct),
                               equity[1] \div data.close))
       /\ ( equity[1] = 10000 /\ p.risk_per_trade = 1000
            /\ data.close = 100 /\ p.sl_pct = 1 ) => size[1] = 100

C5_Witness ==
    /\ size = Some(100)
    /\ equity = Some(10000) /\ p.risk_per_trade = 1000
    /\ data.close = 100 /\ p.sl_pct = 1

\* C6: every emitted ENTER_LONG has size <= floor(equity/price), that is
\* size * price <= equity, for the equity the broker reported on the bar.
C6_EntryAffordable ==
    \A i \in 1 .. Len(calls) :
        calls[i].op = "buy" =>
            /\ calls[i].size <= equity[1] \div data.close
            /\ calls[i].size * data.close <= equity[1]

\* C7: bars_held is 0 on the bar that emits ENTER_LONG and equals k on the
\* k-th later bar processed while the position is LONG.
C7_BarsHeldCounts ==
    /\ Entered => bars_in_trade = 0
    /\ was_in_trade => bars_in_trade = bars_since_entry

C7_Witness ==
    was_in_trade /\ bars_in_trade = 2 /\ bars_since_entry = 2

\* C8: bars_held is 0 in every FLAT state, the state left by the bar that
\* emits EXIT included.
C8_FlatBarsZero == ~in_trade => bars_in_trade = 0

\* A bar processed while LONG on which neither take-profit, stop-loss nor
\* MACD cross-down matches.
QuietBar == was_in_trade /\ ~TakeProfitHit /\ ~StopLossHit /\ ~CrossDown
TimeStopped == exit_reason = Some("Max bars in trade reached")

\* C9 as stated: after an entry on bar t with no take-profit, stop-loss or
\* cross-down match since, the strategy holds while bars_held <
\* max_bars_in_trade and exits with time-stop exactly on bar
\* t + max_bars_in_trade.
C9_TimeStopOnExactBar ==
    /\ QuietBar /\ bars_in_trade < p.max_bars_in_trade => Held /\ in_trade
    /\ QuietBar /\ bars_in_trade >= p.max_bars_in_trade => TimeStopped /\ Exited
    /\ TimeStopped => bars_since_entry = p.max_bars_in_trade

\* C9 amended: the same, for max_bars_in_trade >= 1.
C9_TimeStopOnExactBarFromOne ==
    p.max_bars_in_trade >= 1 => C9_TimeStopOnExactBar

C9_Witness ==
    /\ p.max_bars_in_trade = 2
    /\ TimeStopped /\ Exited /\ QuietBar
    /\ bars_since_entry = 2

\* C10: a bar makes at most one order call, a buy or a close and never both,
\* and a bar that leaves the position as it was (HOLD) makes none.
C10_OneDecisionPerBar ==
    /\ Len(calls) <= 1
    /\ ~(Entered /\ Exited)
    /\ in_trade = was_in_trade => Held

C10_Witness == was_in_trade /\ in_trade /\ Held /\ bars_in_trade >= 1

\* C11: a bar on which some indicator is not ready, or on which the RSI of
\* the bar before (the one-bar lookback of line 93) was not, produces no
\* ENTER_LONG and no EXIT, whatever its values are, and leaves the strategy
\* FLAT.
C11_NoDecisionBeforeWarmUp ==
    [][ (ready' # Indicators \/ data.rsi = NaN) => Held' /\ ~in_trade' ]_vars

\* A bar on which all but the EMA are ready and read as an entry signal.
C11_Witness ==
    /\ ready = Indicators \ {"ema"}
    /\ data.cross = 1 /\ data.macd = -1 /\ data.rsi = 25
    /\ data.close = 100
    /\ p.sl_pct = 1
    /\ Held /\ ~in_trade

\* C12: when the entry conditions hold while FLAT and the sizer returns a
\* size <= 0, the bar emits no order and leaves the strategy FLAT with
\* entry_price unset and bars_held 0.
C12_ZeroSizeIsNoOp ==
    (size # None /\ size[1] <= 0)
    => /\ Held
       /\ ~in_trade /\ ~was_in_trade
       /\ entry_price = None
       /\ bars_in_trade = 0

C12_Witness ==
    /\ size = Some(0) /\ p.sl_pct = 0
    /\ data.cross = 1 /\ data.macd = -1
    /\ Held /\ ~in_trade

\* C13: a bar whose close is not positive is rejected: no order is emitted
\* for it, the position state is left as it was, and no later bar is
\* processed.
C13_MalformedBarRejected ==
    [][ /\ data'.close <= 0 =>
              /\ Held'
              /\ in_trade' = in_trade
              /\ entry_price' = entry_price
              /\ bars_in_trade' = bars_in_trade
        /\ data.close > 0
      ]_vars

\* C16: while LONG, entry_price is the close of the bar of the most recent
\* ENTER_LONG, bars processed while LONG leave it alone, and the take-profit
\* and stop-loss of a bar processed while LONG are decided against that
\* close.
C16_EntryPriceIsEntryClose ==
    /\ (in_trade \/ was_in_trade) => entry_close # None /\ entry_price = entry_close
    /\ was_in_trade =>
          /\ exit_reason = Some("TP hit")
                <=> data.close * 1000 >= entry_close[1] * (1000 + p.tp_pct)
          /\ exit_reason = Some("SL hit")
                <=> /\ data.close * 1000 < entry_close[1] * (1000 + p.tp_pct)
                    /\ data.close * 1000 <= entry_close[1] * (1000 - p.sl_pct)

\* A bar held in a position entered at 101, the bar closing at 100.
C16_Witness ==
    /\ in_trade /\ was_in_trade
    /\ entry_close = Some(101) /\ entry_price = Some(101)
    /\ data.close = 100

\* C17: the orders alternate, starting with an entry: at every time there is
\* no open entry or exactly one, an EXIT closes the one open entry, an
\* ENTER_LONG is emitted only with none open, and no bar emits both.
C17_OrdersAlternate ==
    /\ open_orders \in {0, 1}
    /\ Entered => open_orders = 1 /\ ~was_in_trade
    /\ Exited => open_orders = 0 /\ was_in_trade
    /\ ~(Entered /\ Exited)

C17_Witness == Exited /\ open_orders = 0 /\ was_in_trade /\ entry_close # None

\* C18: with max_bars_in_trade >= 1, every state left by a bar that is LONG
\* has bars_held < max_bars_in_trade, and fewer than max_bars_in_trade bars
\* have passed since the entry bar.
C18_NeverHeldBeyondMax ==
    (p.max_bars_in_trade >= 1 /\ in_trade)
    => /\ bars_in_trade < p.max_bars_in_trade
       /\ bars_since_entry < p.max_bars_in_trade

C18_Witness ==
    /\ p.max_bars_in_trade = 2
    /\ in_trade /\ was_in_trade /\ bars_in_trade = 1

====
